---- MODULE Spec2Model ----
(***************************************************************************)
(* A model of raxrs (src/src/main.rs): the numeric-literal converter       *)
(* parse_num, the tokenizer of parse_expr, the shunting-yard transformer   *)
(* infix_to_postfix, the postfix evaluator eval_expr and the two loops of  *)
(* main (interactive and batch).                                           *)
(*                                                                         *)
(* A Rust String is a sequence of one-character strings.  A 64-bit integer *)
(* is kept at full width: magnitudes are little-endian sequences of limbs  *)
(* in base LimbBase, since the integers of TLC are 32 bits wide.           *)
(***************************************************************************)
EXTENDS Integers, Sequences, FiniteSets, TLC

(***************************************************************************)
(* Natural numbers of any size                                             *)
(***************************************************************************)
LimbBase == 64 * 64

Max(x, y) == IF x >= y THEN x ELSE y
Min(x, y) == IF x <= y THEN x ELSE y

(* An operator that uses an argument more than once binds it first, as the   *)
(* element of a singleton: The({e(x) : x \in {v}}) is e(v), with v evaluated *)
(* once.                                                                     *)
The(S) == CHOOSE x \in S : TRUE

\* limb i of a, zero past its end
Limb(a, i) == IF i <= Len(a) THEN a[i] ELSE 0

\* a without its leading (most significant) zero limbs
NNorm(a) ==
    The({IF \A i \in 1..Len(x) : x[i] = 0 THEN <<>>
         ELSE SubSeq(x, 1, CHOOSE i \in 1..Len(x) :
                               x[i] # 0 /\ \A j \in (i + 1)..Len(x) : x[j] = 0) :
         x \in {a}})

\* a natural number of TLC (below 2^31) as a magnitude, and back
NFromInt(k) == NNorm(<<k % LimbBase, (k \div LimbBase) % LimbBase,
                       k \div (LimbBase * LimbBase)>>)
NToInt(a) ==
    The({Limb(x, 1) + LimbBase * (Limb(x, 2) + LimbBase * Limb(x, 3)) : x \in {a}})

\* -1, 0, 1 as a is below, equal to, above b (both normalized)
NCmp(a, b) ==
    The({IF Len(x) < Len(y) THEN -1
         ELSE IF Len(x) > Len(y) THEN 1
         ELSE IF x = y THEN 0
         ELSE The({IF x[i] < y[i] THEN -1 ELSE 1 :
                   i \in {CHOOSE i \in 1..Len(x) :
                              x[i] # y[i] /\ \A j \in (i + 1)..Len(x) : x[j] = y[j]}}) :
         x \in {a}, y \in {b}})

NLt(a, b) == NCmp(a, b) = -1
NLe(a, b) == NCmp(a, b) # 1

(* The limb loops split their range in halves, the carry passing from the   *)
(* first half to the second, so that the evaluation nests only to the       *)
(* logarithm of the length.  Their a and b are values, bound by the caller. *)

\* limbs lo..hi of a + b with carry c coming in: the limbs and the carry out
RECURSIVE AddRange(_, _, _, _, _)
AddRange(a, b, lo, hi, c) ==
    IF lo = hi
    THEN The({[s |-> <<t % LimbBase>>, c |-> t \div LimbBase] :
              t \in {Limb(a, lo) + Limb(b, lo) + c}})
    ELSE The({The({The({[s |-> L.s \o R.s, c |-> R.c] :
                        R \in {AddRange(a, b, mid + 1, hi, L.c)}}) :
                   L \in {AddRange(a, b, lo, mid, c)}}) :
              mid \in {(lo + hi) \div 2}})

NAdd(a, b) ==
    The({IF x = <<>> THEN y
         ELSE IF y = <<>> THEN x
         ELSE The({IF r.c = 0 THEN r.s ELSE Append(r.s, r.c) :
                   r \in {AddRange(x, y, 1, Max(Len(x), Len(y)), 0)}}) :
         x \in {a}, y \in {b}})

\* limbs lo..hi of a - b with borrow c coming in
RECURSIVE SubRange(_, _, _, _, _)
SubRange(a, b, lo, hi, c) ==
    IF lo = hi
    THEN The({[s |-> <<IF t < 0 THEN t + LimbBase ELSE t>>,
               c |-> IF t < 0 THEN 1 ELSE 0] :
              t \in {Limb(a, lo) - Limb(b, lo) - c}})
    ELSE The({The({The({[s |-> L.s \o R.s, c |-> R.c] :
                        R \in {SubRange(a, b, mid + 1, hi, L.c)}}) :
                   L \in {SubRange(a, b, lo, mid, c)}}) :
              mid \in {(lo + hi) \div 2}})

\* a - b for a >= b
NSub(a, b) ==
    The({IF x = <<>> THEN <<>> ELSE NNorm(SubRange(x, y, 1, Len(x), 0).s) :
         x \in {a}, y \in {b}})

\* limbs lo..hi of a * m with carry c coming in, 0 <= m, c < LimbBase
RECURSIVE MulSmallRange(_, _, _, _, _)
MulSmallRange(a, m, lo, hi, c) ==
    IF lo = hi
    THEN The({[s |-> <<t % LimbBase>>, c |-> t \div LimbBase] : t \in {a[lo] * m + c}})
    ELSE The({The({The({[s |-> L.s \o R.s, c |-> R.c] :
                        R \in {MulSmallRange(a, m, mid + 1, hi, L.c)}}) :
                   L \in {MulSmallRange(a, m, lo, mid, c)}}) :
              mid \in {(lo + hi) \div 2}})

\* a * m + c for 0 <= m, c < LimbBase
NMulAdd(a, m, c) ==
    The({IF x = <<>> THEN NNorm(<<c0>>)
         ELSE The({NNorm(Append(r.s, r.c)) : r \in {MulSmallRange(x, m0, 1, Len(x), c0)}}) :
         x \in {a}, m0 \in {m}, c0 \in {c}})

NMulSmall(a, m) == NMulAdd(a, m, 0)

\* limbs hi down to lo of a divided by 0 < d < LimbBase, remainder r coming in
RECURSIVE DivSmallRange(_, _, _, _, _)
DivSmallRange(a, d, lo, hi, r) ==
    IF lo = hi
    THEN The({[q |-> <<cur \div d>>, r |-> cur % d] : cur \in {r * LimbBase + a[lo]}})
    ELSE The({The({The({[q |-> L.q \o H.q, r |-> L.r] :
                        L \in {DivSmallRange(a, d, lo, mid, H.r)}}) :
                   H \in {DivSmallRange(a, d, mid + 1, hi, r)}}) :
              mid \in {(lo + hi) \div 2}})

\* quotient and remainder of a by 0 < d < LimbBase
NDivSmall(a, d) ==
    The({IF x = <<>> THEN [q |-> <<>>, r |-> 0]
         ELSE The({[q |-> NNorm(r.q), r |-> r.r] :
                   r \in {DivSmallRange(x, d, 1, Len(x), 0)}}) :
         x \in {a}})

\* a * LimbBase^k
NShiftLimbs(a, k) ==
    The({IF x = <<>> THEN <<>> ELSE [i \in 1..k |-> 0] \o x : x \in {a}})

\* a * (limbs lo..hi of b, in place)
RECURSIVE MulRange(_, _, _, _)
MulRange(a, b, lo, hi) ==
    IF lo = hi THEN NShiftLimbs(NMulSmall(a, b[lo]), lo - 1)
    ELSE The({NAdd(MulRange(a, b, lo, mid), MulRange(a, b, mid + 1, hi)) :
              mid \in {(lo + hi) \div 2}})

NMul(a, b) ==
    The({IF x = <<>> \/ y = <<>> THEN <<>> ELSE MulRange(x, y, 1, Len(y)) :
         x \in {a}, y \in {b}})

\* the largest k in lo..hi with k * b <= r (lo * b <= r is given; r, b are values)
RECURSIVE NQuotDigit(_, _, _, _)
NQuotDigit(r, b, lo, hi) ==
    IF lo = hi THEN lo
    ELSE The({IF NLe(NMulSmall(b, mid), r) THEN NQuotDigit(r, b, mid, hi)
              ELSE NQuotDigit(r, b, lo, mid - 1) :
              mid \in {(lo + hi + 1) \div 2}})

\* one limb of the long division: cur, below b * LimbBase, divided by b
DivLimb(cur, b) ==
    The({The({[q |-> <<k>>, r |-> NSub(x, NMulSmall(b, k))] :
              k \in {NQuotDigit(x, b, 0, LimbBase - 1)}}) :
         x \in {cur}})

\* limbs hi down to lo of a divided by b # 0, remainder r < b coming in
RECURSIVE DivRange(_, _, _, _, _)
DivRange(a, b, lo, hi, r) ==
    IF lo = hi
    THEN DivLimb(NNorm(<<a[lo]>> \o r), b)
    ELSE The({The({The({[q |-> L.q \o H.q, r |-> L.r] :
                        L \in {DivRange(a, b, lo, mid, H.r)}}) :
                   H \in {DivRange(a, b, mid + 1, hi, r)}}) :
              mid \in {(lo + hi) \div 2}})

\* quotient and remainder of a by b # 0
NDivMod(a, b) ==
    The({IF x = <<>> THEN [q |-> <<>>, r |-> <<>>]
         ELSE The({[q |-> NNorm(r.q), r |-> r.r] :
                   r \in {DivRange(x, y, 1, Len(x), <<>>)}}) :
         x \in {a}, y \in {b}})

\* 2^k for 0 <= k < 12, and 2^k for any k >= 0
SmallPow2(k) == <<1, 2, 4, 8, 16, 32, 64, 128, 256, 512, 1024, 2048>>[k + 1]
NPow2(k) == [i \in 1..(k \div 12) |-> 0] \o <<SmallPow2(k % 12)>>

\* a * 2^k
NShl(a, k) == NShiftLimbs(NMulSmall(a, SmallPow2(k % 12)), k \div 12)

\* 10^k by repeated squaring
RECURSIVE NPow10(_)
NPow10(k) == IF k = 0 THEN <<1>>
             ELSE The({IF k % 2 = 1 THEN NMulSmall(NMul(h, h), 10) ELSE NMul(h, h) :
                       h \in {NPow10(k \div 2)}})

NTwo63 == NPow2(63)
NTwo64 == NPow2(64)

(***************************************************************************)
(* Characters and strings                                                  *)
(***************************************************************************)
DigitChars == <<"0", "1", "2", "3", "4", "5", "6", "7", "8", "9",
                "a", "b", "c", "d", "e", "f">>
UpperHex == <<"A", "B", "C", "D", "E", "F">>

\* char::to_digit(radix): the digit's value, or -1 when c is no digit of the radix
to_digit(c, radix) ==
    The({IF v < radix THEN v ELSE -1 :
         v \in {IF \E i \in 1..16 : DigitChars[i] = c
                THEN (CHOOSE i \in 1..16 : DigitChars[i] = c) - 1
                ELSE IF \E i \in 1..6 : UpperHex[i] = c
                THEN (CHOOSE i \in 1..6 : UpperHex[i] = c) + 9
                ELSE -1}})

\* char::is_ascii_digit
is_ascii_digit(c) == to_digit(c, 10) >= 0

(* A character of the model is a string of one character, and a string of   *)
(* this module can spell the characters up to U+00FF and, of those beyond,  *)
(* the ones of the basic plane whose code ends in a byte from 80 to FF: no  *)
(* other character is in any input of the model. The characters that have  *)
(* no escape stand raw in the literals below.                               *)

\* the characters beyond ASCII of the general categories Nd, Nl and No (from
\* U+00B2, U+00B3, U+00B9, U+00BC..U+00BE on)
NumericChars ==
    {
     "²", "³", "¹", "¼", "½", "¾", "۰", "۱", "۲", "۳", "۴", "۵",
     "۶", "۷", "۸", "۹", "߀", "߁", "߂", "߃", "߄", "߅", "߆", "߇",
     "߈", "߉", "০", "১", "২", "৩", "৪", "৫", "৬", "৭", "৮", "৯",
     "৴", "৵", "৶", "৷", "৸", "৹", "૦", "૧", "૨", "૩", "૪", "૫",
     "૬", "૭", "૮", "૯", "௦", "௧", "௨", "௩", "௪", "௫", "௬", "௭",
     "௮", "௯", "௰", "௱", "௲", "೦", "೧", "೨", "೩", "೪", "೫", "೬",
     "೭", "೮", "೯", "෦", "෧", "෨", "෩", "෪", "෫", "෬", "෭", "෮",
     "෯", "໐", "໑", "໒", "໓", "໔", "໕", "໖", "໗", "໘", "໙", "႐",
     "႑", "႒", "႓", "႔", "႕", "႖", "႗", "႘", "႙", "ᛮ", "ᛯ", "ᛰ",
     "០", "១", "២", "៣", "៤", "៥", "៦", "៧", "៨", "៩", "៰", "៱",
     "៲", "៳", "៴", "៵", "៶", "៷", "៸", "៹", "᧐", "᧑", "᧒", "᧓",
     "᧔", "᧕", "᧖", "᧗", "᧘", "᧙", "᧚", "᪀", "᪁", "᪂", "᪃", "᪄",
     "᪅", "᪆", "᪇", "᪈", "᪉", "᪐", "᪑", "᪒", "᪓", "᪔", "᪕", "᪖",
     "᪗", "᪘", "᪙", "᮰", "᮱", "᮲", "᮳", "᮴", "᮵", "᮶", "᮷", "᮸",
     "᮹", "₀", "₁", "₂", "₃", "₄", "₅", "₆", "₇", "₈", "₉", "ↀ",
     "ↁ", "ↂ", "ↅ", "ↆ", "ↇ", "ↈ", "↉", "⒀", "⒁", "⒂", "⒃", "⒄",
     "⒅", "⒆", "⒇", "⒈", "⒉", "⒊", "⒋", "⒌", "⒍", "⒎", "⒏", "⒐",
     "⒑", "⒒", "⒓", "⒔", "⒕", "⒖", "⒗", "⒘", "⒙", "⒚", "⒛", "⓪",
     "⓫", "⓬", "⓭", "⓮", "⓯", "⓰", "⓱", "⓲", "⓳", "⓴", "⓵", "⓶",
     "⓷", "⓸", "⓹", "⓺", "⓻", "⓼", "⓽", "⓾", "⓿", "➀", "➁", "➂",
     "➃", "➄", "➅", "➆", "➇", "➈", "➉", "➊", "➋", "➌", "➍", "➎",
     "➏", "➐", "➑", "➒", "➓", "⳽", "㆒", "㆓", "㆔", "㆕", "㊀", "㊁",
     "㊂", "㊃", "㊄", "㊅", "㊆", "㊇", "㊈", "㊉", "㊱", "㊲", "㊳", "㊴",
     "㊵", "㊶", "㊷", "㊸", "㊹", "㊺", "㊻", "㊼", "㊽", "㊾", "㊿", "ꛦ",
     "ꛧ", "ꛨ", "ꛩ", "ꛪ", "ꛫ", "ꛬ", "ꛭ", "ꛮ", "ꛯ", "꣐", "꣑", "꣒",
     "꣓", "꣔", "꣕", "꣖", "꣗", "꣘", "꣙", "꧐", "꧑", "꧒", "꧓", "꧔",
     "꧕", "꧖", "꧗", "꧘", "꧙", "꧰", "꧱", "꧲", "꧳", "꧴", "꧵", "꧶",
     "꧷", "꧸", "꧹", "꯰", "꯱", "꯲", "꯳", "꯴", "꯵", "꯶", "꯷", "꯸",
     "꯹"}

\* char::is_numeric: the ASCII digits and the numeric characters of Unicode
is_numeric(c) == is_ascii_digit(c) \/ c \in NumericChars

starts_with(s, p) == Len(s) >= Len(p) /\ SubSeq(s, 1, Len(p)) = p
ends_with(s, p) == Len(s) >= Len(p) /\ SubSeq(s, Len(s) - Len(p) + 1, Len(s)) = p
DropFirst(s, n) == SubSeq(s, n + 1, Len(s))
DropLast(s, n) == SubSeq(s, 1, Len(s) - n)

Ok(v) == [ok |-> TRUE, v |-> v]
Err(e) == [ok |-> FALSE, e |-> e]

(***************************************************************************)
(* 64-bit integers: i64 is a sign and a magnitude, u64 a magnitude         *)
(***************************************************************************)
MkI64(neg, mag) == The({[neg |-> neg /\ m # <<>>, mag |-> m] : m \in {mag}})

\* the i64 of a small integer of TLC
I64(k) == IF k < 0 THEN MkI64(TRUE, NFromInt(-k)) ELSE MkI64(FALSE, NFromInt(k))

I64Min == MkI64(TRUE, NTwo63)
I64Max == MkI64(FALSE, NSub(NTwo63, <<1>>))

\* whether a sign and magnitude fit an i64
InI64(neg, mag) == IF neg THEN NLe(mag, NTwo63) ELSE NLt(mag, NTwo63)

\* the digits lo..hi of s in the radix appended to the magnitude acc
RECURSIVE DigitsRange(_, _, _, _, _)
DigitsRange(s, radix, lo, hi, acc) ==
    IF lo = hi THEN NMulAdd(acc, radix, to_digit(s[lo], radix))
    ELSE The({The({DigitsRange(s, radix, mid + 1, hi, L) :
                   L \in {DigitsRange(s, radix, lo, mid, acc)}}) :
              mid \in {(lo + hi) \div 2}})

\* the value of s, a string of digits of the radix
DigitsValue(s, radix) ==
    The({IF x = <<>> THEN <<>> ELSE DigitsRange(x, radix, 1, Len(x), <<>>) : x \in {s}})

AllDigits(s, radix) == \A i \in 1..Len(s) : to_digit(s[i], radix) >= 0

\* i64::from_str_radix: an optional sign, at least one digit, the value in range
i64_from_str_radix(s, radix) ==
    IF s = <<>> THEN Err("ParseIntError")
    ELSE The({IF digits = <<>> \/ ~AllDigits(digits, radix) THEN Err("ParseIntError")
              ELSE The({IF InI64(s[1] = "-", mag) THEN Ok(MkI64(s[1] = "-", mag))
                        ELSE Err("ParseIntError") :
                        mag \in {DigitsValue(digits, radix)}}) :
              digits \in {IF s[1] = "+" \/ s[1] = "-" THEN Tail(s) ELSE s}})

\* u64::from_str_radix: an optional +, at least one digit, the value below 2^64
u64_from_str_radix(s, radix) ==
    IF s = <<>> THEN Err("ParseIntError")
    ELSE The({IF digits = <<>> \/ ~AllDigits(digits, radix) THEN Err("ParseIntError")
              ELSE The({IF NLt(mag, NTwo64) THEN Ok(mag) ELSE Err("ParseIntError") :
                        mag \in {DigitsValue(digits, radix)}}) :
              digits \in {IF s[1] = "+" THEN Tail(s) ELSE s}})

\* the number of bits of a magnitude
BitLen(a) ==
    The({IF x = <<>> THEN 0
         ELSE 12 * (Len(x) - 1) +
              (CHOOSE n \in 1..12 : SmallPow2(n - 1) <= x[Len(x)] /\
                                    (n = 12 \/ x[Len(x)] < SmallPow2(n))) :
         x \in {a}})

\* the w bits of a from bit k up (w divides 12, so they lie in one limb)
BitsAt(a, k, w) ==
    (Limb(a, (k \div 12) + 1) \div SmallPow2(k % 12)) % SmallPow2(w)

\* the digits of a # 0 in radix 2^w for w in {1, 3, 4}, most significant first
Pow2Digits(a, w) ==
    The({[i \in 1..n |-> DigitChars[BitsAt(a, (n - i) * w, w) + 1]] :
         n \in {(BitLen(a) + w - 1) \div w}})

\* the decimal digits of a # 0 in groups of three, most significant first
RECURSIVE DecGroups(_)
DecGroups(a) ==
    IF a = <<>> THEN <<>>
    ELSE The({DecGroups(x.q) \o <<DigitChars[(x.r \div 100) + 1],
                                  DigitChars[((x.r \div 10) % 10) + 1],
                                  DigitChars[(x.r % 10) + 1]>> :
              x \in {NDivSmall(a, 1000)}})

\* s without its leading "0" characters
StripZeros(s) ==
    The({IF \A i \in 1..Len(x) : x[i] = "0" THEN <<>>
         ELSE SubSeq(x, CHOOSE i \in 1..Len(x) :
                            x[i] # "0" /\ \A j \in 1..(i - 1) : x[j] = "0", Len(x)) :
         x \in {s}})

\* the digits of a magnitude in radix 2, 8, 10 or 16 ("0" for zero)
NToStr(a, radix) ==
    The({IF x = <<>> THEN <<"0">>
         ELSE IF radix = 10 THEN StripZeros(DecGroups(x))
         ELSE Pow2Digits(x, CASE radix = 2 -> 1 [] radix = 8 -> 3 [] radix = 16 -> 4) :
         x \in {a}})

\* the bits of an i64 as a u64 (two's complement)
I64Bits(n) == IF n.neg THEN NSub(NTwo64, n.mag) ELSE n.mag

\* the i64 with the given low 64 bits
I64OfBits(bits) ==
    The({IF NLt(x, NTwo63) THEN MkI64(FALSE, x) ELSE MkI64(TRUE, NSub(NTwo64, x)) :
         x \in {bits}})

\* i64::to_string, and {:x}, {:b}, {:o} of an i64 (of its two's complement bits)
i64_to_string(n) == (IF n.neg THEN <<"-">> ELSE <<>>) \o NToStr(n.mag, 10)
fmt_x(n) == NToStr(I64Bits(n), 16)
fmt_b(n) == NToStr(I64Bits(n), 2)
fmt_o(n) == NToStr(I64Bits(n), 8)

(***************************************************************************)
(* 64-bit floats.  A float is its bit pattern, a magnitude below 2^64:     *)
(* f64::from_bits and f64::to_bits are the identity on it.                 *)
(***************************************************************************)
\* the sign, the biased exponent and the fraction field of a bit pattern
F64Fields(bits) ==
    The({[neg |-> NToInt(x.q) >= 2048, exp |-> NToInt(x.q) % 2048, frac |-> x.r] :
         x \in {NDivMod(bits, NPow2(52))}})

\* flt2dec::decode of a finite non-zero float: the value is mant * 2^exp and the
\* floats that round to it lie from (mant - minus) * 2^exp to (mant + plus) * 2^exp
F64Decode(f) ==
    IF f.exp = 0
    THEN [mant |-> NMulSmall(f.frac, 2), minus |-> <<1>>, plus |-> <<1>>,
          exp |-> -1075, inclusive |-> TRUE]
    ELSE IF f.frac = <<>>
    THEN [mant |-> NMulSmall(NPow2(52), 4), minus |-> <<1>>, plus |-> <<2>>,
          exp |-> f.exp - 1077, inclusive |-> TRUE]
    ELSE [mant |-> NMulSmall(NAdd(NPow2(52), f.frac), 2), minus |-> <<1>>,
          plus |-> <<1>>, exp |-> f.exp - 1076, inclusive |-> f.frac[1] % 2 = 0]

\* a * 10^k over b for k >= 0, a over b * 10^(-k) for k < 0: the two sides
ScaleNum(a, k) == IF k >= 0 THEN NMul(a, NPow10(k)) ELSE a
ScaleDen(b, k) == IF k >= 0 THEN b ELSE NMul(b, NPow10(-k))

\* a < b, or a <= b when the bounds are included
Below(a, b, inclusive) == IF inclusive THEN NLe(a, b) ELSE NLt(a, b)

\* whether high = (mant + plus) / scale lies above 10^k (or on it, when included)
HighAbove(high, scale, k, inclusive) ==
    Below(ScaleNum(scale, k), ScaleDen(high, k), inclusive)

\* the k with 10^(k-1) < high <= 10^k (the bounds shifted when included)
RECURSIVE FixScale(_, _, _, _)
FixScale(high, scale, k, inclusive) ==
    IF HighAbove(high, scale, k, inclusive)
    THEN FixScale(high, scale, k + 1, inclusive)
    ELSE IF ~HighAbove(high, scale, k - 1, inclusive)
    THEN FixScale(high, scale, k - 1, inclusive)
    ELSE k

\* the digit loop of format_shortest: one digit each turn, until the digits so
\* far tell the float from its neighbours
RECURSIVE ShortestDigits(_, _, _, _, _, _)
ShortestDigits(mant, minus, plus, scale, inclusive, buf) ==
    The({The({The({The({IF down \/ up
                        THEN [buf |-> Append(buf, d),
                              up |-> up /\ (~down \/ NLe(sc, NMulSmall(rem, 2)))]
                        ELSE ShortestDigits(NMulSmall(rem, 10), NMulSmall(mi, 10),
                                            NMulSmall(pl, 10), sc, inclusive,
                                            Append(buf, d)) :
                        down \in {Below(rem, mi, inclusive)},
                        up \in {Below(sc, NAdd(rem, pl), inclusive)}}) :
                   rem \in {NSub(mt, NMulSmall(sc, d))}}) :
              d \in {NQuotDigit(mt, sc, 0, 9)}}) :
         mt \in {mant}, mi \in {minus}, pl \in {plus}, sc \in {scale}})

\* round_up: the digits plus one in the last place; all nines carry into a new digit
RoundUp(buf) ==
    IF \A i \in 1..Len(buf) : buf[i] = 9
    THEN [buf |-> <<1>> \o [i \in 1..Len(buf) |-> 0], carry |-> 1]
    ELSE LET i == CHOOSE i \in 1..Len(buf) :
                      buf[i] # 9 /\ \A j \in (i + 1)..Len(buf) : buf[j] = 9
         IN  [buf |-> [j \in 1..Len(buf) |->
                          IF j < i THEN buf[j] ELSE IF j = i THEN buf[i] + 1 ELSE 0],
              carry |-> 0]

\* estimate_scaling_factor: a first guess of the decimal exponent
EstimateScale(d) ==
    ((BitLen(NSub(NAdd(d.mant, d.plus), <<1>>)) + d.exp) * 30103) \div 100000

\* the decoded float over the power of two of its exponent: mant, minus and plus
\* over scale; high is the upper end mant + plus, est a first guess of the decimal
\* exponent (estimate_scaling_factor)
Scaled(decoded) ==
    The({The({[mant |-> m, minus |-> NShl(d.minus, Max(d.exp, 0)), plus |-> p,
               scale |-> IF d.exp < 0 THEN NPow2(-d.exp) ELSE <<1>>,
               high |-> NAdd(m, p), est |-> EstimateScale(d),
               inclusive |-> d.inclusive] :
              m \in {NShl(d.mant, Max(d.exp, 0))}, p \in {NShl(d.plus, Max(d.exp, 0))}}) :
         d \in {decoded}})

\* format_shortest: the shortest digits that read back as the float, and the
\* exponent k: the value is 0.d1d2... * 10^k
FormatShortest(decoded) ==
    The({The({The({The({[buf |-> [i \in 1..Len(r.buf) |-> DigitChars[r.buf[i] + 1]],
                         k |-> k + r.carry] :
                        r \in {IF g.up THEN RoundUp(g.buf)
                               ELSE [buf |-> g.buf, carry |-> 0]}}) :
                   g \in {ShortestDigits(ScaleDen(x.mant, k - 1), ScaleDen(x.minus, k - 1),
                                         ScaleDen(x.plus, k - 1), ScaleNum(x.scale, k - 1),
                                         x.inclusive, <<>>)}}) :
              k \in {FixScale(x.high, x.scale, x.est, x.inclusive)}}) :
         x \in {Scaled(decoded)}})

\* digits_to_dec_str with no minimum of fractional digits
DigitsToDecStr(buf, k) ==
    IF k <= 0 THEN <<"0", ".">> \o [i \in 1..(-k) |-> "0"] \o buf
    ELSE IF k < Len(buf)
    THEN SubSeq(buf, 1, k) \o <<".">> \o SubSeq(buf, k + 1, Len(buf))
    ELSE buf \o [i \in 1..(k - Len(buf)) |-> "0"]

\* f64::to_string (Display for f64) of the float with the given bits
f64_to_string(bits) ==
    The({IF f.exp = 2047
         THEN (IF f.frac = <<>> THEN (IF f.neg THEN <<"-">> ELSE <<>>) \o <<"i", "n", "f">>
               ELSE <<"N", "a", "N">>)
         ELSE IF f.exp = 0 /\ f.frac = <<>>
         THEN (IF f.neg THEN <<"-">> ELSE <<>>) \o <<"0">>
         ELSE The({(IF f.neg THEN <<"-">> ELSE <<>>) \o DigitsToDecStr(x.buf, x.k) :
                   x \in {FormatShortest(F64Decode(f))}}) :
         f \in {F64Fields(bits)}})

\* the lower-case form of the letters that spell inf, infinity and nan
AsciiLower(c) ==
    CASE c = "I" -> "i" [] c = "N" -> "n" [] c = "F" -> "f" [] c = "A" -> "a"
      [] c = "T" -> "t" [] c = "Y" -> "y" [] OTHER -> c

EqIgnoreCase(s, w) == Len(s) = Len(w) /\ \A i \in 1..Len(s) : AsciiLower(s[i]) = w[i]

\* the length of the run of decimal digits of s that starts at index from
DigitRun(s, from) ==
    CHOOSE n \in 0..(Len(s) - from + 1) :
        /\ \A j \in from..(from + n - 1) : is_ascii_digit(s[j])
        /\ (from + n > Len(s) \/ ~is_ascii_digit(s[from + n]))

\* parse_scientific: the exponent of a parsed number. Each digit is taken into
\* the exponent (exponent = 10 * exponent + digit) only while the exponent is
\* below 0x10000, so the value is that of the shortest run of leading digits
\* which reaches 0x10000, or of all the digits; the sign is applied last.
\* Leading zeros leave the value as it is, and edigits comes without them.
ExponentValue(edigits, minus) ==
    The({The({IF minus THEN -e ELSE e :
              e \in {NToInt(DigitsValue(SubSeq(x, 1, k), 10))}}) :
         x \in {edigits},
         k \in {IF Len(edigits) >= 5
                   /\ NToInt(DigitsValue(SubSeq(edigits, 1, 5), 10)) >= 65536
                THEN 5 ELSE Min(Len(edigits), 6)}})

\* parse_number from the end of the mantissa: ni integer digits, a dot or none,
\* nf fractional digits, the exponent part from index p, its digits from index q
ParseExponent(s, ni, dot, nf, p, hasE, q) ==
    The({IF ni + nf = 0 THEN [ok |-> FALSE]
         ELSE IF hasE /\ (ne = 0 \/ q + ne - 1 # Len(s)) THEN [ok |-> FALSE]
         ELSE IF ~hasE /\ p - 1 # Len(s) THEN [ok |-> FALSE]
         ELSE [ok |-> TRUE,
               digits |-> SubSeq(s, 1, ni) \o (IF dot THEN SubSeq(s, ni + 2, ni + 1 + nf)
                                               ELSE <<>>),
               exp |-> (IF hasE
                        THEN ExponentValue(StripZeros(SubSeq(s, q, q + ne - 1)),
                                           q = p + 2 /\ s[p + 1] = "-")
                        ELSE 0) - nf] :
         ne \in {IF hasE THEN DigitRun(s, q) ELSE 0}})

\* parse_number after the mantissa: the exponent marker at index p, if any, and
\* the sign after it
ParseMarker(s, ni, dot, nf, p) ==
    The({ParseExponent(s, ni, dot, nf, p, hasE,
                       IF hasE /\ p + 1 <= Len(s) /\ (s[p + 1] = "-" \/ s[p + 1] = "+")
                       THEN p + 2 ELSE p + 1) :
         hasE \in {p <= Len(s) /\ (s[p] = "e" \/ s[p] = "E")}})

\* parse_number: the digits of the mantissa and the decimal exponent of
\* digits [. digits] [e [sign] digits], or ok = FALSE
ParseNumber(s) ==
    The({The({The({ParseMarker(s, ni, dot, nf, ni + (IF dot THEN 1 + nf ELSE 0) + 1) :
                   nf \in {IF dot THEN DigitRun(s, ni + 2) ELSE 0}}) :
              dot \in {ni < Len(s) /\ s[ni + 1] = "."}}) :
         ni \in {DigitRun(s, 1)}})

\* the quotient of p by q * 2^e2, rounded to the nearest, ties to even, and
\* whether it lies below 2^53 before rounding
RoundedQuotient(p, q, e2) ==
    The({The({The({[m |-> IF c = 1 \/ (c = 0 /\ Limb(x.q, 1) % 2 = 1)
                          THEN NAdd(x.q, <<1>>) ELSE x.q,
                    fits |-> NLt(x.q, NPow2(53))] :
                   c \in {NCmp(NMulSmall(x.r, 2), den)}}) :
              x \in {NDivMod(IF e2 < 0 THEN NShl(p, -e2) ELSE p, den)}}) :
         den \in {IF e2 > 0 THEN NShl(q, e2) ELSE q}})

F64Inf == NMulSmall(NPow2(52), 2047)

\* the bits of a float from its rounded mantissa m at the binary exponent e2: the
\* mantissa's own top bit carries into the exponent field
F64Pack(m, e2) ==
    The({IF NLe(F64Inf, bits) THEN F64Inf ELSE bits :
         bits \in {NAdd(NMul(NPow2(52), NFromInt(e2 + 1074)), m)}})

\* the bits of the float nearest to p / q > 0 (ties to even), infinity when too large
NearestF64(p, q) ==
    The({The({The({IF r0.fits THEN F64Pack(r0.m, e0)
                   ELSE F64Pack(RoundedQuotient(x, y, e0 + 1).m, e0 + 1) :
                   r0 \in {RoundedQuotient(x, y, e0)}}) :
              e0 \in {Max(BitLen(x) - BitLen(y) - 1 - 52, -1074)}}) :
         x \in {p}, y \in {q}})

\* the float of a parsed number, under the sign bit
F64OfNumber(sign, digits, exp) ==
    IF digits = <<>> \/ Len(digits) + exp < -330 THEN sign
    ELSE IF Len(digits) + exp > 310 THEN NAdd(sign, F64Inf)
    ELSE NAdd(sign, NearestF64(ScaleNum(DigitsValue(digits, 10), exp),
                               ScaleDen(<<1>>, exp)))

\* the float of the text after the sign
F64OfBody(sign, body) ==
    IF body = <<>> THEN Err("ParseFloatError")
    ELSE The({IF n.ok THEN Ok(F64OfNumber(sign, StripZeros(n.digits), n.exp))
              ELSE IF EqIgnoreCase(body, <<"i", "n", "f">>)
                      \/ EqIgnoreCase(body, <<"i", "n", "f", "i", "n", "i", "t", "y">>)
              THEN Ok(NAdd(sign, F64Inf))
              ELSE IF EqIgnoreCase(body, <<"n", "a", "n">>)
              THEN Ok(NAdd(sign, NAdd(F64Inf, NPow2(51))))
              ELSE Err("ParseFloatError") :
              n \in {ParseNumber(body)}})

\* str::parse::<f64>: the bits of the float, or an error
f64_from_str(s) ==
    IF s = <<>> THEN Err("ParseFloatError")
    ELSE F64OfBody(IF s[1] = "-" THEN NPow2(63) ELSE <<>>,
                   IF s[1] = "-" \/ s[1] = "+" THEN Tail(s) ELSE s)

(***************************************************************************)
(* Arithmetic on i64                                                       *)
(***************************************************************************)
\* the exact sum, difference and product of two i64, as sign and magnitude
ExactAdd(x, y) ==
    IF x.neg = y.neg THEN MkI64(x.neg, NAdd(x.mag, y.mag))
    ELSE IF NLe(y.mag, x.mag) THEN MkI64(x.neg, NSub(x.mag, y.mag))
    ELSE MkI64(y.neg, NSub(y.mag, x.mag))

ExactSub(x, y) == ExactAdd(x, MkI64(~y.neg, y.mag))
ExactMul(x, y) == MkI64(x.neg # y.neg, NMul(x.mag, y.mag))

\* the quotient of x by y # 0, truncated toward zero
ExactDiv(x, y) == MkI64(x.neg # y.neg, NDivMod(x.mag, y.mag).q)

\* the i64 that holds the low 64 bits of an exact result
Wrap(z) ==
    The({I64OfBits(IF z.neg /\ r # <<>> THEN NSub(NTwo64, r) ELSE r) :
         r \in {NDivMod(z.mag, NTwo64).r}})

\* an arithmetic result: the value when it fits an i64, else an overflow that
\* carries the wrapped value
Arith(z) ==
    The({IF InI64(x.neg, x.mag) THEN [overflow |-> FALSE, v |-> x]
         ELSE [overflow |-> TRUE, v |-> Wrap(x)] :
         x \in {z}})

(***************************************************************************)
(* parse_num: the literal converter                                        *)
(***************************************************************************)
ParseIntError == Err("ParseIntError")

\* the condition of the rule numbered k, in the order of the if-else chain
RuleMatches(k, input) ==
    CASE k = 1 -> starts_with(input, <<"0", "x">>)
      [] k = 2 -> starts_with(input, <<"b">>)
      [] k = 3 -> starts_with(input, <<"F", "x">>)
      [] k = 4 -> starts_with(input, <<"B", "x">>)
      [] k = 5 -> starts_with(input, <<"O", "x">>)
      [] k = 6 -> ends_with(input, <<"d">>)
      [] k = 7 -> ends_with(input, <<"f">>)
      [] k = 8 -> ends_with(input, <<"o">>)
      [] k = 9 -> ends_with(input, <<"b">>)
      [] k = 10 -> TRUE

\* the branch of the rule numbered k, taken on its own
RuleBranch(k, input) ==
    The({IF r.ok THEN Ok(r.v) ELSE ParseIntError :
         r \in {CASE k = 1 -> The({[ok |-> n.ok, v |-> IF n.ok THEN i64_to_string(n.v) ELSE <<>>] :
                                   n \in {i64_from_str_radix(DropFirst(input, 2), 16)}})
                  [] k = 2 -> The({[ok |-> n.ok, v |-> IF n.ok THEN fmt_b(n.v) \o <<"b">> ELSE <<>>] :
                                   n \in {i64_from_str_radix(DropFirst(input, 1), 10)}})
                  [] k = 3 -> The({[ok |-> n.ok, v |-> IF n.ok THEN f64_to_string(n.v) ELSE <<>>] :
                                   n \in {u64_from_str_radix(DropFirst(input, 2), 16)}})
                  [] k = 4 -> The({[ok |-> n.ok, v |-> IF n.ok THEN fmt_b(n.v) ELSE <<>>] :
                                   n \in {i64_from_str_radix(DropFirst(input, 2), 16)}})
                  [] k = 5 -> The({[ok |-> n.ok, v |-> IF n.ok THEN fmt_o(n.v) ELSE <<>>] :
                                   n \in {i64_from_str_radix(DropFirst(input, 2), 16)}})
                  [] k = 6 -> The({[ok |-> n.ok, v |-> IF n.ok THEN i64_to_string(n.v) ELSE <<>>] :
                                   n \in {i64_from_str_radix(DropLast(input, 1), 2)}})
                  [] k = 7 -> The({[ok |-> n.ok, v |-> IF n.ok THEN <<"0", "x">> \o NToStr(n.v, 16) ELSE <<>>] :
                                   n \in {f64_from_str(DropLast(input, 1))}})
                  [] k = 8 -> The({[ok |-> n.ok, v |-> IF n.ok THEN <<"0", "x">> \o fmt_x(n.v) ELSE <<>>] :
                                   n \in {i64_from_str_radix(DropLast(input, 1), 8)}})
                  [] k = 9 -> The({[ok |-> n.ok, v |-> IF n.ok THEN <<"0", "x">> \o fmt_x(n.v) ELSE <<>>] :
                                   n \in {i64_from_str_radix(DropLast(input, 1), 2)}})
                  [] k = 10 -> The({[ok |-> n.ok, v |-> IF n.ok THEN <<"0", "x">> \o fmt_x(n.v) ELSE <<>>] :
                                    n \in {i64_from_str_radix(input, 10)}})}})

\* the first rule whose condition holds, and the last one before the default
FirstRule(input) ==
    CHOOSE k \in 1..10 : RuleMatches(k, input) /\ \A j \in 1..(k - 1) : ~RuleMatches(j, input)
LastRule(input) ==
    IF \E k \in 1..9 : RuleMatches(k, input)
    THEN CHOOSE k \in 1..9 : RuleMatches(k, input) /\ \A j \in (k + 1)..9 : ~RuleMatches(j, input)
    ELSE 10

\* a converter whose tests were not chained by else: a later rule that matches
\* takes the literal over from an earlier one
parse_num_unchained(input) == RuleBranch(LastRule(input), input)

\* each rule parses, maps the value to its text (Result::map) and maps any error
\* to ParseIntError (Result::map_err); a float is its bits, so f64::from_bits and
\* f64::to_bits leave r.v as it is
parse_num(input) ==
    IF starts_with(input, <<"0", "x">>)
    THEN The({IF r.ok THEN Ok(i64_to_string(r.v)) ELSE ParseIntError :
              r \in {i64_from_str_radix(DropFirst(input, 2), 16)}})
    ELSE IF starts_with(input, <<"b">>)
    THEN The({IF r.ok THEN Ok(fmt_b(r.v) \o <<"b">>) ELSE ParseIntError :
              r \in {i64_from_str_radix(DropFirst(input, 1), 10)}})
    ELSE IF starts_with(input, <<"F", "x">>)
    THEN The({IF r.ok THEN Ok(f64_to_string(r.v)) ELSE ParseIntError :
              r \in {u64_from_str_radix(DropFirst(input, 2), 16)}})
    ELSE IF starts_with(input, <<"B", "x">>)
    THEN The({IF r.ok THEN Ok(fmt_b(r.v)) ELSE ParseIntError :
              r \in {i64_from_str_radix(DropFirst(input, 2), 16)}})
    ELSE IF starts_with(input, <<"O", "x">>)
    THEN The({IF r.ok THEN Ok(fmt_o(r.v)) ELSE ParseIntError :
              r \in {i64_from_str_radix(DropFirst(input, 2), 16)}})
    ELSE IF ends_with(input, <<"d">>)
    THEN The({IF r.ok THEN Ok(i64_to_string(r.v)) ELSE ParseIntError :
              r \in {i64_from_str_radix(DropLast(input, 1), 2)}})
    ELSE IF ends_with(input, <<"f">>)
    THEN The({IF r.ok THEN Ok(<<"0", "x">> \o NToStr(r.v, 16)) ELSE ParseIntError :
              r \in {f64_from_str(DropLast(input, 1))}})
    ELSE IF ends_with(input, <<"o">>)
    THEN The({IF r.ok THEN Ok(<<"0", "x">> \o fmt_x(r.v)) ELSE ParseIntError :
              r \in {i64_from_str_radix(DropLast(input, 1), 8)}})
    ELSE IF ends_with(input, <<"b">>)
    THEN The({IF r.ok THEN Ok(<<"0", "x">> \o fmt_x(r.v)) ELSE ParseIntError :
              r \in {i64_from_str_radix(DropLast(input, 1), 2)}})
    ELSE The({IF r.ok THEN Ok(<<"0", "x">> \o fmt_x(r.v)) ELSE ParseIntError :
              r \in {i64_from_str_radix(input, 10)}})

\* the test of both normalization loops: every character is a digit, '.' or '-'
AllNumeric(s) == \A i \in 1..Len(s) : is_numeric(s[i]) \/ s[i] = "." \/ s[i] = "-"

(***************************************************************************)
(* Tokens                                                                  *)
(***************************************************************************)
Number(s) == [kind |-> "Number", num |-> s]
Tok(k) == [kind |-> k, num |-> <<>>]
Plus == Tok("Plus")
Minus == Tok("Minus")
Star == Tok("Star")
Slash == Tok("Slash")
LParen == Tok("LParen")
RParen == Tok("RParen")

IsOperator(t) == t.kind \in {"Plus", "Minus", "Star", "Slash"}

\* the token of one of the six operator and parenthesis characters
CharToken(c) ==
    CASE c = "+" -> Plus [] c = "-" -> Minus [] c = "/" -> Slash
      [] c = "*" -> Star [] c = "(" -> LParen [] c = ")" -> RParen

IsOpChar(c) == c \in {"+", "-", "/", "*", "(", ")"}

\* char::is_whitespace, the White_Space characters: U+0009..U+000D, space,
\* U+0085, U+00A0 and U+1680 (U+000B and the last three stand raw here); the
\* others, U+2000..U+200A, U+2028, U+2029, U+202F, U+205F and U+3000, are no
\* characters of the model
IsWhitespace(c) ==
    c \in {"\t", "\n", "", "\f", "\r", " ", "", " ", " "}

\* str::trim_end: s without its trailing whitespace
trim_end(s) ==
    IF \A i \in 1..Len(s) : IsWhitespace(s[i]) THEN <<>>
    ELSE SubSeq(s, 1, CHOOSE i \in 1..Len(s) :
                          ~IsWhitespace(s[i]) /\
                          \A j \in (i + 1)..Len(s) : IsWhitespace(s[j]))

(***************************************************************************)
(* The tokenizer loop of parse_expr, one character a step.  A step takes   *)
(* and gives [curr, tokens, out]: the pending run, the tokens so far and   *)
(* the diagnostics printed.                                                *)
(***************************************************************************)
CouldNotConvert(string) == <<"Could not convert number ">> \o string
CouldNotParse(string) == <<"Could not parse number ">> \o string

\* the flush of the pending run at an operator or parenthesis character
FlushAtOperator(t) ==
    IF t.curr = <<>> THEN t
    ELSE The({IF r.ok
              THEN [t EXCEPT !.tokens = Append(@, Number(r.v)), !.curr = <<>>]
              ELSE [t EXCEPT !.out = Append(@, CouldNotConvert(t.curr))] :
              r \in {parse_num(t.curr)}})

\* one turn of the while loop, on the character c
TokenizeChar(t, c) ==
    IF c = " " THEN t
    ELSE IF IsOpChar(c)
    THEN [FlushAtOperator(t) EXCEPT !.tokens = Append(@, CharToken(c))]
    ELSE [t EXCEPT !.curr = Append(@, c)]

\* a tokenizer that kept the raw run as the payload, without converting it
FlushAtEndRaw(t) ==
    IF t.curr = <<>> THEN t
    ELSE [t EXCEPT !.tokens = Append(@, Number(t.curr)), !.curr = <<>>]

\* the flush of the pending run after the loop
FlushAtEnd(t) ==
    IF t.curr = <<>> THEN t
    ELSE The({IF r.ok
              THEN [t EXCEPT !.tokens = Append(@, Number(r.v)), !.curr = <<>>]
              ELSE [t EXCEPT !.out = Append(@, CouldNotParse(t.curr)), !.curr = <<>>] :
              r \in {parse_num(t.curr)}})

\* the tokenizer's state after the first k characters of s
RECURSIVE TokenizeRun(_, _)
TokenizeRun(s, k) ==
    IF k = 0 THEN [curr |-> <<>>, tokens |-> <<>>, out |-> <<>>]
    ELSE The({TokenizeChar(t, s[k]) : t \in {TokenizeRun(s, k - 1)}})

\* the tokens parse_expr returns for the line l
parse_expr(l) ==
    The({The({FlushAtEnd(t).tokens : t \in {TokenizeRun(s, Len(s))}}) :
         s \in {trim_end(l)}})

(***************************************************************************)
(* infix_to_postfix, one token a step, on [output_queue, operator_stack]   *)
(* (the top of the stack is its last element)                              *)
(***************************************************************************)
\* a transformer for which a left parenthesis stopped no pop: the whole stack
WholeStack(st) == Len(st)

\* the length of the run of tokens other than LParen on top of the stack
TopRun(st) ==
    CHOOSE n \in 0..Len(st) :
        /\ \A j \in (Len(st) - n + 1)..Len(st) : st[j] # LParen
        /\ (n = Len(st) \/ st[Len(st) - n] = LParen)

\* a transformer that dropped the operators it popped
PoppedNone(st) == <<>>

\* s from its last element to its first
Reverse(s) == [i \in 1..Len(s) |-> s[Len(s) + 1 - i]]

\* the tokens popped off the stack above its topmost LParen, in popping order
PoppedRun(st) == Reverse(SubSeq(st, Len(st) - TopRun(st) + 1, Len(st)))

ShuntToken(q, token) ==
    IF token.kind = "Number"
    THEN [q EXCEPT !.output_queue = Append(@, token)]
    ELSE IF IsOperator(token)
    THEN [output_queue |-> q.output_queue \o PoppedRun(q.operator_stack),
          operator_stack |->
              Append(SubSeq(q.operator_stack, 1,
                            Len(q.operator_stack) - TopRun(q.operator_stack)), token)]
    ELSE IF token.kind = "LParen"
    THEN [q EXCEPT !.operator_stack = Append(@, token)]
    ELSE \* RParen: pop to the output until an LParen is popped or the stack is empty
         [output_queue |-> q.output_queue \o PoppedRun(q.operator_stack),
          operator_stack |->
              SubSeq(q.operator_stack, 1,
                     Max(0, Len(q.operator_stack) - TopRun(q.operator_stack) - 1))]

\* a transformer that threw away the left parentheses left on the stack
NotLParen(t) == t # LParen
ShuntDrainNoParens(q) ==
    [output_queue |-> q.output_queue \o SelectSeq(Reverse(q.operator_stack), NotLParen),
     operator_stack |-> <<>>]

\* the loop after the last token: everything left on the stack goes to the output
ShuntDrain(q) ==
    [output_queue |-> q.output_queue \o Reverse(q.operator_stack),
     operator_stack |-> <<>>]

\* the queue and the stack after the first k tokens of ts
RECURSIVE ShuntRun(_, _)
ShuntRun(ts, k) ==
    IF k = 0 THEN [output_queue |-> <<>>, operator_stack |-> <<>>]
    ELSE The({ShuntToken(q, ts[k]) : q \in {ShuntRun(ts, k - 1)}})

\* infix_to_postfix as a whole
infix_to_postfix(ts) ==
    The({ShuntDrain(q).output_queue : q \in {ShuntRun(ts, Len(ts))}})

(***************************************************************************)
(* eval_expr                                                               *)
(***************************************************************************)
\* an evaluator that reported a missing operand as a stray token
MissingAsUnexpected == Err("Unexpected token")

InvalidExpression == Err("Invalid expression")
DivisionByZero == Err("Division by zero")
UnexpectedToken == Err("Unexpected token")

\* an evaluator that divided without looking at the divisor
DivisorUnchecked(token, a) == FALSE

\* the test of the Slash arm: a == 0
DivisorIsZero(token, a) == token.kind = "Slash" /\ a = I64(0)

\* an evaluator that took the operands in the order they were popped: a OP b
ApplyOperatorSwapped(token, b, a) ==
    CASE token.kind = "Plus" -> Arith(ExactAdd(a, b))
      [] token.kind = "Minus" -> Arith(ExactSub(a, b))
      [] token.kind = "Star" -> Arith(ExactMul(a, b))
      [] token.kind = "Slash" -> IF b = I64(0) THEN [overflow |-> TRUE, v |-> b]
                                 ELSE Arith(ExactDiv(a, b))

\* b OP a for the operator token; the overflow field tells that the operation
\* panics where overflow is trapped, and b / 0 panics in every build
ApplyOperator(token, b, a) ==
    CASE token.kind = "Plus" -> Arith(ExactAdd(b, a))
      [] token.kind = "Minus" -> Arith(ExactSub(b, a))
      [] token.kind = "Star" -> Arith(ExactMul(b, a))
      [] token.kind = "Slash" -> IF a = I64(0) THEN [overflow |-> TRUE, v |-> a]
                                 ELSE Arith(ExactDiv(b, a))

(***************************************************************************)
(* check_force_output and the formats of batch mode                        *)
(***************************************************************************)
None == [some |-> FALSE, v |-> <<>>]
Some(v) == [some |-> TRUE, v |-> v]

bases == <<<<"f">>, <<"2">>, <<"8">>, <<"1", "0">>, <<"1", "6">>>>

\* parts[1] of arg.split('=') for an arg that starts with '=': what lies
\* between the first '=' and the next one (or the end)
SplitPart1(arg) ==
    LET rest == Tail(arg)
        n == CHOOSE n \in 0..Len(rest) :
                 /\ \A j \in 1..n : rest[j] # "="
                 /\ (n = Len(rest) \/ rest[n + 1] = "=")
    IN  SubSeq(rest, 1, n)

IsBaseArg(arg) ==
    arg # <<>> /\ arg[1] = "=" /\ \E i \in 1..Len(bases) : bases[i] = SplitPart1(arg)

\* the base of the first argument that names one, program name included
check_force_output(args) ==
    IF \E i \in 1..Len(args) : IsBaseArg(args[i])
    THEN Some(SplitPart1(args[CHOOSE i \in 1..Len(args) :
                                  IsBaseArg(args[i]) /\
                                  \A j \in 1..(i - 1) : ~IsBaseArg(args[j])]))
    ELSE None

\* the line printed for temp_num under a forced base
FormatBase(base, temp_num) ==
    CASE base = <<"f">> -> i64_to_string(temp_num)
      [] base = <<"2">> -> <<"b">> \o fmt_b(temp_num)
      [] base = <<"8">> -> <<"O", "x">> \o fmt_o(temp_num)
      [] base = <<"1", "0">> -> i64_to_string(temp_num)
      [] base = <<"1", "6">> -> <<"0", "x">> \o fmt_x(temp_num)

(***************************************************************************)
(* The program state                                                       *)
(***************************************************************************)
VARIABLES
    args,            \* env::args(): the program name, then the arguments
    overflow_checks, \* whether the build traps integer overflow (debug) or wraps
    pc,              \* where main is
    out,             \* what print! and println! wrote outside the while loops that
                     \* re-normalize, one element a call: from the last prompt on
                     \* (interactive), from the start (batch)
    loop_out,        \* what the last step wrote, when it is a turn of such a loop
    line,            \* the line read by parse_expr
    input,           \* the line after trim_end
    pos,             \* the index in input of the character the tokenizer peeks at
    curr,            \* the pending literal run
    tokens,          \* the tokens made so far
    tpos,            \* the index in tokens of the token infix_to_postfix takes next
    output_queue,
    operator_stack,
    postfix,         \* the tokens handed to eval_expr
    epos,            \* the index in postfix of the token eval_expr takes next
    stack,           \* the operand stack
    temp_num,        \* the string being re-normalized (temp_num, temp_num_str)
    result,          \* what eval_expr returned (interactive), parse_num's Ok string (batch)
    base,            \* the forced base of batch mode
    idx              \* the index in args of the argument batch mode takes next

tokVars == <<line, input, pos, curr, tokens>>
shuntVars == <<tpos, output_queue, operator_stack, postfix>>
evalVars == <<epos, stack>>
batchVars == <<base, idx>>
vars == <<args, overflow_checks, pc, out, loop_out, line, input, pos, curr, tokens, tpos,
          output_queue, operator_stack, postfix, epos, stack, temp_num, result,
          base, idx>>

(***************************************************************************)
(* Bounds and inputs                                                       *)
(***************************************************************************)
\* the longest line of the free family, in pieces
MaxPieces == 4
\* the most arguments of batch mode
MaxArgs == 2

ProgName == <<"r", "a", "x", "r", "s">>

\* the concatenation of a sequence of strings
RECURSIVE Flatten(_)
Flatten(ss) == IF ss = <<>> THEN <<>> ELSE ss[1] \o Flatten(Tail(ss))

\* the sequences of at most n elements of S
SeqsUpTo(S, n) == UNION {[1..k -> S] : k \in 0..n}

\* lines of any shape: every sequence of at most MaxPieces of these pieces
Pieces == {<<"1">>, <<"0">>, <<"z">>, <<"+">>, <<"/">>, <<"(">>, <<")">>}
FreeLines == {Flatten(ps) : ps \in SeqsUpTo(Pieces, MaxPieces)}

\* numbers and operators for the lines built on a pattern
NumLits == {<<"0">>, <<"2">>, <<"3">>, <<"4">>, <<"0", "x", "a">>}
OpChars == {"+", "-", "*", "/"}

\* "(A op1 B) op2 C" and "A op1 (B op2 C)"
LeftGrouped(A, op1, B, op2, C) == <<"(">> \o A \o <<op1>> \o B \o <<")", op2>> \o C
RightGrouped(A, op1, B, op2, C) == A \o <<op1, "(">> \o B \o <<op2>> \o C \o <<")">>
GroupedLines ==
    {LeftGrouped(A, op1, B, op2, C) :
        A \in NumLits, B \in NumLits, C \in NumLits, op1 \in OpChars, op2 \in OpChars}
    \cup
    {RightGrouped(A, op1, B, op2, C) :
        A \in NumLits, B \in NumLits, C \in NumLits, op1 \in OpChars, op2 \in OpChars}

\* literals of every rule of the converter, and bit patterns of floats
FxInf == <<"F", "x", "7", "f", "f", "0", "0", "0", "0", "0", "0", "0", "0", "0", "0", "0", "0", "0">>
FxNegInf == <<"F", "x", "f", "f", "f", "0", "0", "0", "0", "0", "0", "0", "0", "0", "0", "0", "0", "0">>
FxNaN == <<"F", "x", "7", "f", "f", "8", "0", "0", "0", "0", "0", "0", "0", "0", "0", "0", "0", "0">>
FxOneAndHalf == <<"F", "x", "3", "f", "f", "8", "0", "0", "0", "0", "0", "0", "0", "0", "0", "0", "0", "0">>
FxMinusOneAndHalf == <<"F", "x", "b", "f", "f", "8", "0", "0", "0", "0", "0", "0", "0", "0", "0", "0", "0", "0">>
FxMinusOne == <<"F", "x", "b", "f", "f", "0", "0", "0", "0", "0", "0", "0", "0", "0", "0", "0", "0", "0">>
FxTwo == <<"F", "x", "4", "0", "0", "0", "0", "0", "0", "0", "0", "0", "0", "0", "0", "0", "0", "0">>
DecI64Max == <<"9", "2", "2", "3", "3", "7", "2", "0", "3", "6", "8", "5", "4", "7", "7", "5", "8", "0", "7">>

RuleLits == {<<"0", "x", "f", "f">>, <<"b", "5">>, <<"B", "x", "5">>, <<"O", "x", "8">>, <<"1", "0", "1", "d">>, <<"1", ".", "5", "f">>, <<"1", "7", "o">>, <<"1", "0", "1", "b">>, <<"2", "5", "5">>,
             FxInf, FxNegInf, FxNaN, FxOneAndHalf, FxMinusOneAndHalf, FxMinusOne, FxTwo}

\* lines picked for a case each
PickedLines ==
    RuleLits \cup
    {<<"3", " ", "+", " ", "4", " ", "*", " ", "2">>,
     <<"(", "3", " ", "+", " ", "4", ")", " ", "*", " ", "2">>,
     <<"z", "z", "+", "1">>,
     <<"5", " ", "/", " ", "0">>,
     <<"+">>,
     <<>>,
     <<"(", "1">>,
     <<"1", "+", ")", "2">>,
     <<"(", "1", ")", "(", "2", ")">>,
     <<"1", " ", "2", "+", "3">>,
     <<"1", "\t", "+", "2">>,
     <<"2", "+", "3", " ", " ">>,
     <<"1", "+", "2", "\f">>,
     <<"2", "+", "3", "">>,
     <<"2", "+", "3", " ", "", " ">>,
     <<"2", " ", "+", "3">>,
     <<"B", "x", "0", "-", "1">>,
     <<"0", "x", "1", "-", "z", "z">>,
     <<"3", "+", "4", "*", "2">>,
     FxTwo \o <<"+">> \o FxOneAndHalf,
     DecI64Max \o <<"+", "1">>,
     DecI64Max \o <<"*", "2">>,
     <<"0", "-", "1", "-">> \o DecI64Max,
     <<"0", "-", "2", "-">> \o DecI64Max,
     <<"(", "0", "-", "1", "-">> \o DecI64Max \o <<")", "/">> \o FxMinusOne,
     <<"(", "0", "-", "1", "-">> \o DecI64Max \o <<")", "/", "(", "0", "-", "1", ")">>}

Lines == FreeLines \cup GroupedLines \cup PickedLines

(***************************************************************************)
(* main, interactive mode: args.len() == 1                                 *)
(***************************************************************************)
Init ==
    /\ args = <<ProgName>>
    /\ overflow_checks \in BOOLEAN
    /\ pc = "read"
    /\ out = <<>> /\ loop_out = <<>>
    /\ line = <<>> /\ input = <<>> /\ pos = 1 /\ curr = <<>> /\ tokens = <<>>
    /\ tpos = 1 /\ output_queue = <<>> /\ operator_stack = <<>> /\ postfix = <<>>
    /\ epos = 1 /\ stack = <<>>
    /\ temp_num = <<>>
    /\ result = InvalidExpression
    /\ base = None /\ idx = 1

\* what print!("> ") writes
Prompt == <<">", " ">>

\* parse_expr up to its loop: the prompt, then read_line. The line is one of S,
\* and is trimmed; or the bytes read are not UTF-8, read_line returns an Err and
\* expect panics on it
ReadLineFrom(S) ==
    /\ pc = "read"
    /\ out' = <<Prompt>>
    /\ \/ /\ \E l \in S : line' = l /\ input' = trim_end(l)
          /\ pc' = "tokenize"
       \/ /\ pc' = "read_failed"
          /\ UNCHANGED <<line, input>>
    /\ UNCHANGED <<args, overflow_checks, loop_out, pos, curr, tokens, shuntVars,
                   evalVars, temp_num, result, batchVars>>

ReadLine == ReadLineFrom(Lines)

\* one turn of the tokenizer's while loop
TokenizeStep ==
    /\ pc = "tokenize"
    /\ pos <= Len(input)
    /\ \E t \in {TokenizeChar([curr |-> curr, tokens |-> tokens, out |-> out],
                              input[pos])} :
           curr' = t.curr /\ tokens' = t.tokens /\ out' = t.out
    /\ pos' = pos + 1
    /\ UNCHANGED <<args, overflow_checks, loop_out, pc, line, input, shuntVars, evalVars,
                   temp_num, result, batchVars>>

\* the end of parse_expr: the last flush; main hands the tokens to infix_to_postfix
TokenizeEnd ==
    /\ pc = "tokenize"
    /\ pos > Len(input)
    /\ \E t \in {FlushAtEnd([curr |-> curr, tokens |-> tokens, out |-> out])} :
           curr' = t.curr /\ tokens' = t.tokens /\ out' = t.out
    /\ tpos' = 1 /\ output_queue' = <<>> /\ operator_stack' = <<>> /\ postfix' = <<>>
    /\ pc' = "shunt"
    /\ UNCHANGED <<args, overflow_checks, loop_out, line, input, pos, evalVars, temp_num,
                   result, batchVars>>

\* one turn of the for loop of infix_to_postfix
ShuntStep ==
    /\ pc = "shunt"
    /\ tpos <= Len(tokens)
    /\ \E q \in {ShuntToken([output_queue |-> output_queue,
                             operator_stack |-> operator_stack], tokens[tpos])} :
           output_queue' = q.output_queue /\ operator_stack' = q.operator_stack
    /\ tpos' = tpos + 1
    /\ UNCHANGED <<args, overflow_checks, loop_out, pc, out, tokVars, postfix, evalVars,
                   temp_num, result, batchVars>>

\* the end of infix_to_postfix: the stack is drained; eval_expr starts on the result
ShuntEnd ==
    /\ pc = "shunt"
    /\ tpos > Len(tokens)
    /\ \E q \in {ShuntDrain([output_queue |-> output_queue,
                             operator_stack |-> operator_stack])} :
           /\ output_queue' = q.output_queue
           /\ operator_stack' = q.operator_stack
           /\ postfix' = q.output_queue
    /\ epos' = 1 /\ stack' = <<>>
    /\ pc' = "eval"
    /\ UNCHANGED <<args, overflow_checks, loop_out, out, tokVars, tpos, temp_num, result,
                   batchVars>>

\* eval_expr at a Number: the iterator moves on, the loop variable takes the payload
EvalNumber ==
    /\ pc = "eval"
    /\ epos <= Len(postfix)
    /\ postfix[epos].kind = "Number"
    /\ epos' = epos + 1
    /\ temp_num' = postfix[epos].num
    /\ pc' = "norm_test"
    /\ UNCHANGED <<args, overflow_checks, loop_out, out, tokVars, shuntVars, stack,
                   result, batchVars>>

\* the test of the while loop: out of it, the string is parsed, unwrapped and pushed
NormTest ==
    /\ pc = "norm_test"
    /\ IF AllNumeric(temp_num)
       THEN \E r \in {i64_from_str_radix(temp_num, 10)} :
                IF r.ok
                THEN /\ stack' = Append(stack, r.v)
                     /\ pc' = "eval"
                ELSE \* unwrap of an Err: the process panics
                     /\ pc' = "aborted"
                     /\ UNCHANGED stack
       ELSE /\ pc' = "norm_body"
            /\ UNCHANGED stack
    /\ loop_out' = <<>>
    /\ UNCHANGED <<args, overflow_checks, out, tokVars, shuntVars, epos, temp_num,
                   result, batchVars>>

\* the body of the while loop: temp_num takes what parse_num made of it, or the
\* turn prints its diagnostic and leaves temp_num as it was
NormBody ==
    /\ pc = "norm_body"
    /\ \E r \in {parse_num(temp_num)} :
           IF r.ok
           THEN temp_num' = r.v /\ loop_out' = <<>>
           ELSE temp_num' = temp_num /\ loop_out' = <<<<"Could not parse number">>>>
    /\ pc' = "norm_test"
    /\ UNCHANGED <<args, overflow_checks, out, tokVars, shuntVars, evalVars, result,
                   batchVars>>

\* the stack without its n topmost values
Popped(st, n) == SubSeq(st, 1, Len(st) - n)

\* eval_expr at an operator: the iterator moves on and the operands are popped,
\* a first, then b, before anything is decided
EvalOperator ==
    /\ pc = "eval"
    /\ epos <= Len(postfix)
    /\ IsOperator(postfix[epos])
    /\ epos' = epos + 1
    /\ IF Len(stack) < 2
       THEN \* the pops take what there is, and one finds the stack empty:
            \* ok_or("Invalid expression")?
            /\ stack' = <<>>
            /\ result' = InvalidExpression
            /\ pc' = "print"
       ELSE \E a \in {stack[Len(stack)]}, b \in {stack[Len(stack) - 1]} :
                IF DivisorIsZero(postfix[epos], a)
                THEN /\ stack' = Popped(stack, 2)
                     /\ result' = DivisionByZero
                     /\ pc' = "print"
                ELSE \E r \in {ApplyOperator(postfix[epos], b, a)} :
                         IF r.overflow /\ (overflow_checks \/ postfix[epos].kind = "Slash")
                         THEN \* the arithmetic panics
                              /\ stack' = Popped(stack, 2)
                              /\ pc' = "aborted"
                              /\ UNCHANGED result
                         ELSE /\ stack' = Append(Popped(stack, 2), r.v)
                              /\ UNCHANGED <<pc, result>>
    /\ UNCHANGED <<args, overflow_checks, loop_out, out, tokVars, shuntVars, temp_num,
                   batchVars>>

\* eval_expr at a parenthesis: the iterator has moved on, the match falls through
EvalOther ==
    /\ pc = "eval"
    /\ epos <= Len(postfix)
    /\ postfix[epos].kind \in {"LParen", "RParen"}
    /\ epos' = epos + 1
    /\ result' = UnexpectedToken
    /\ pc' = "print"
    /\ UNCHANGED <<args, overflow_checks, loop_out, out, tokVars, shuntVars, stack,
                   temp_num, batchVars>>

\* an evaluator that took anything but one value left on the stack for a failure
EvalEndStrict ==
    /\ pc = "eval"
    /\ epos > Len(postfix)
    /\ result' = IF Len(stack) # 1 THEN InvalidExpression ELSE Ok(stack[1])
    /\ stack' = IF stack = <<>> THEN <<>> ELSE Popped(stack, 1)
    /\ pc' = "print"
    /\ UNCHANGED <<args, overflow_checks, loop_out, out, tokVars, shuntVars, epos,
                   temp_num, batchVars>>

\* the end of eval_expr: the top of the stack is popped and returned, or the
\* stack is empty and the failure is returned
EvalEnd ==
    /\ pc = "eval"
    /\ epos > Len(postfix)
    /\ result' = IF stack = <<>> THEN InvalidExpression ELSE Ok(stack[Len(stack)])
    /\ stack' = IF stack = <<>> THEN <<>> ELSE Popped(stack, 1)
    /\ pc' = "print"
    /\ UNCHANGED <<args, overflow_checks, loop_out, out, tokVars, shuntVars, epos,
                   temp_num, batchVars>>

\* main prints the result and loops: the locals of the turn go out of scope
PrintResult ==
    /\ pc = "print"
    /\ out' = Append(out, IF result.ok THEN i64_to_string(result.v) ELSE <<result.e>>)
    /\ line' = <<>> /\ input' = <<>> /\ pos' = 1 /\ curr' = <<>> /\ tokens' = <<>>
    /\ tpos' = 1 /\ output_queue' = <<>> /\ operator_stack' = <<>> /\ postfix' = <<>>
    /\ epos' = 1 /\ stack' = <<>>
    /\ temp_num' = <<>>
    /\ result' = InvalidExpression
    /\ pc' = "read"
    /\ UNCHANGED <<args, overflow_checks, loop_out, batchVars>>

Next ==
    \/ ReadLine \/ TokenizeStep \/ TokenizeEnd \/ ShuntStep \/ ShuntEnd
    \/ EvalNumber \/ NormTest \/ NormBody \/ EvalOperator \/ EvalOther \/ EvalEnd
    \/ PrintResult

Spec == Init /\ [][Next]_vars

(***************************************************************************)
(* The interactive loop on the picked lines alone, every step taken in the *)
(* end: the process runs for as long as a step lies before it.             *)
(***************************************************************************)
ReadPicked == ReadLineFrom(PickedLines)

PickedNext ==
    \/ ReadPicked \/ TokenizeStep \/ TokenizeEnd \/ ShuntStep \/ ShuntEnd
    \/ EvalNumber \/ NormTest \/ NormBody \/ EvalOperator \/ EvalOther \/ EvalEnd
    \/ PrintResult

PickedSpec == Init /\ [][PickedNext]_vars /\ WF_vars(PickedNext)

(***************************************************************************)
(* The interactive loop on lines without parentheses: n0 op1 n1 ... opk nk *)
(* (and on one line with a parenthesis, which is no such line)             *)
(***************************************************************************)
\* the most operators of a line of the free family
MaxOps == 2

\* the line of the numbers ns and the operator characters ops, one more number
\* than operators
RECURSIVE Chain(_, _)
Chain(ns, ops) ==
    IF ops = <<>> THEN ns[1]
    ELSE Chain(SubSeq(ns, 1, Len(ops)), SubSeq(ops, 1, Len(ops) - 1))
             \o <<ops[Len(ops)]>> \o ns[Len(ns)]

ChainLines ==
    UNION {{Chain(ns, ops) : ns \in [1..(k + 1) -> NumLits], ops \in [1..k -> OpChars]} :
           k \in 0..MaxOps}
    \cup {Chain(ns, ops) : ns \in [1..4 -> {<<"2">>, <<"3">>}], ops \in [1..3 -> OpChars]}
    \cup {<<"3", " ", "+", " ", "4", " ", "*", " ", "2">>,
          <<"4", "/", "2", "/", "2", "*", "3", "-", "0", "x", "a">>,
          <<"3", "+", "4", "*", "2", "-", "0", "/", "0">>,
          <<"2", "+", "(", "3">>}

ReadChain == ReadLineFrom(ChainLines)

ChainNext ==
    \/ ReadChain \/ TokenizeStep \/ TokenizeEnd \/ ShuntStep \/ ShuntEnd
    \/ EvalNumber \/ NormTest \/ NormBody \/ EvalOperator \/ EvalOther \/ EvalEnd
    \/ PrintResult

ChainSpec == Init /\ [][ChainNext]_vars

(***************************************************************************)
(* main, batch mode: args.len() > 1                                        *)
(***************************************************************************)
\* arguments of every rule, base arguments and arguments no rule takes
ArgLits ==
    {<<"2", "5", "5">>, <<"1", "0">>, <<"-", "1">>, <<"0", "x", "a">>, <<"b", "5">>,
     <<"1", "7", "o">>, <<"1", "0", "1", "d">>, <<"z", "z">>, <<>>,
     <<"=", "1", "6">>, <<"=", "2">>, <<"=", "8">>, <<"=", "1", "0">>, <<"=", "f">>,
     <<"=">>, <<"=", "1", "6", "=", "2">>, <<"=", "3">>,
     FxOneAndHalf, FxInf}

BatchArgs == {<<ProgName>> \o a : a \in SeqsUpTo(ArgLits, MaxArgs) \ {<<>>}}

BatchInit ==
    /\ args \in BatchArgs
    /\ overflow_checks \in BOOLEAN
    /\ pc = "start"
    /\ out = <<>> /\ loop_out = <<>>
    /\ line = <<>> /\ input = <<>> /\ pos = 1 /\ curr = <<>> /\ tokens = <<>>
    /\ tpos = 1 /\ output_queue = <<>> /\ operator_stack = <<>> /\ postfix = <<>>
    /\ epos = 1 /\ stack = <<>>
    /\ temp_num = <<>>
    /\ result = InvalidExpression
    /\ base = None /\ idx = 1

\* check_force_output, and the index of the first argument taken: args[1..], or
\* args[2..] under a forced base (indices from 0 in the source, from 1 here)
BatchStart ==
    /\ pc = "start"
    /\ base' = check_force_output(args)
    /\ idx' = IF check_force_output(args).some THEN 3 ELSE 2
    /\ pc' = "arg"
    /\ UNCHANGED <<args, overflow_checks, loop_out, out, tokVars, shuntVars, evalVars, temp_num,
                   result>>

\* the head of the for loop: parse_num on the next argument
BatchArg ==
    /\ pc = "arg"
    /\ idx <= Len(args)
    /\ \E r \in {parse_num(args[idx])} :
           /\ result' = r
           /\ IF r.ok
              THEN temp_num' = r.v /\ pc' = "bnorm_test" /\ UNCHANGED <<out, idx>>
              ELSE /\ out' = Append(out, <<"Error: Failed to parse input">>)
                   /\ idx' = idx + 1
                   /\ UNCHANGED <<temp_num, pc>>
    /\ UNCHANGED <<args, overflow_checks, loop_out, tokVars, shuntVars, evalVars, base>>

\* the test of the while loop on temp_num_str
BatchNormTest ==
    /\ pc = "bnorm_test"
    /\ pc' = IF AllNumeric(temp_num) THEN "bprint" ELSE "bnorm_body"
    /\ loop_out' = <<>>
    /\ UNCHANGED <<args, overflow_checks, out, tokVars, shuntVars, evalVars, temp_num,
                   result, batchVars>>

\* the body of the while loop: as in eval_expr
BatchNormBody ==
    /\ pc = "bnorm_body"
    /\ \E r \in {parse_num(temp_num)} :
           IF r.ok
           THEN temp_num' = r.v /\ loop_out' = <<>>
           ELSE temp_num' = temp_num /\ loop_out' = <<<<"Could not parse number">>>>
    /\ pc' = "bnorm_test"
    /\ UNCHANGED <<args, overflow_checks, out, tokVars, shuntVars, evalVars, result,
                   batchVars>>

\* after the loop: temp_num_str is parsed into temp_num (0 when that fails, with a
\* diagnostic), and a line is printed under a forced base only
BatchPrint ==
    /\ pc = "bprint"
    /\ \E r \in {i64_from_str_radix(temp_num, 10)} :
           \E parsed \in {IF r.ok THEN out
                          ELSE Append(out, <<"Failed to convert expression result">>)} :
               out' = IF base.some
                      THEN Append(parsed, FormatBase(base.v, IF r.ok THEN r.v ELSE I64(0)))
                      ELSE parsed
    /\ idx' = idx + 1
    /\ pc' = "arg"
    /\ UNCHANGED <<args, overflow_checks, loop_out, tokVars, shuntVars, evalVars, temp_num,
                   result, base>>

\* the end of the for loop, and of main
BatchExit ==
    /\ pc = "arg"
    /\ idx > Len(args)
    /\ pc' = "exit"
    /\ UNCHANGED <<args, overflow_checks, loop_out, out, tokVars, shuntVars, evalVars, temp_num,
                   result, batchVars>>

BatchNext ==
    \/ BatchStart \/ BatchArg \/ BatchNormTest \/ BatchNormBody \/ BatchPrint
    \/ BatchExit

BatchSpec == BatchInit /\ [][BatchNext]_vars /\ WF_vars(BatchNext)

(***************************************************************************)
(* parse_num alone, on the decimal strings of integers and back            *)
(***************************************************************************)
\* the integers from -MaxConv to MaxConv, and the ends of the range of i64
MaxConv == 40
ConvInts == {I64(k) : k \in (-MaxConv)..MaxConv} \cup {I64Min, I64Max}

\* line holds the decimal string of the integer
ConvInit ==
    /\ args = <<ProgName>>
    /\ overflow_checks \in BOOLEAN
    /\ pc = "conv"
    /\ out = <<>> /\ loop_out = <<>>
    /\ \E n \in ConvInts : line = i64_to_string(n)
    /\ input = <<>> /\ pos = 1 /\ curr = <<>> /\ tokens = <<>>
    /\ tpos = 1 /\ output_queue = <<>> /\ operator_stack = <<>> /\ postfix = <<>>
    /\ epos = 1 /\ stack = <<>>
    /\ temp_num = <<>>
    /\ result = InvalidExpression
    /\ base = None /\ idx = 1

\* parse_num on the decimal string
ConvForth ==
    /\ pc = "conv"
    /\ result' = parse_num(line)
    /\ pc' = "forth"
    /\ UNCHANGED <<args, overflow_checks, loop_out, out, tokVars, shuntVars, evalVars, temp_num,
                   batchVars>>

\* parse_num on what it gave
ConvBack ==
    /\ pc = "forth"
    /\ result.ok
    /\ temp_num' = result.v
    /\ result' = parse_num(result.v)
    /\ pc' = "back"
    /\ UNCHANGED <<args, overflow_checks, loop_out, out, tokVars, shuntVars, evalVars, batchVars>>

ConvNext == ConvForth \/ ConvBack

ConvSpec == ConvInit /\ [][ConvNext]_vars

(***************************************************************************)
(* parse_num alone, on literals of every rule                              *)
(***************************************************************************)
\* the longest literal of the free family
MaxRuleLen == 3
\* the characters of the prefixes and suffixes of the rules, and two digits
RuleChars == {"0", "1", "x", "b", "d", "f", "o", "F", "B", "O"}

\* hex literals up to the full width of 64 bits
HexLits ==
    {<<"0", "x", "f", "f">>, <<"0", "x", "F", "F">>, <<"0", "x", "0", "0", "1", "d">>,
     <<"0", "x", "7", "f", "f", "f", "f", "f", "f", "f", "f", "f", "f", "f", "f", "f", "f", "f">>,
     <<"0", "x", "8", "0", "0", "0", "0", "0", "0", "0", "0", "0", "0", "0", "0", "0", "0", "0">>,
     <<"0", "x", "f", "f", "f", "f", "f", "f", "f", "f", "f", "f", "f", "f", "f", "f", "f", "f">>}

RuleInputs ==
    {<<>> \o l : l \in SeqsUpTo(RuleChars, MaxRuleLen)} \cup HexLits \cup RuleLits
    \cup {<<"b", "1", "0", "b">>, <<"0", "x", "1", "0", "b">>, <<"1", "0", "1", "b">>}

\* line holds the literal
RuleInit ==
    /\ args = <<ProgName>>
    /\ overflow_checks \in BOOLEAN
    /\ pc = "rule"
    /\ out = <<>> /\ loop_out = <<>>
    /\ line \in RuleInputs
    /\ input = <<>> /\ pos = 1 /\ curr = <<>> /\ tokens = <<>>
    /\ tpos = 1 /\ output_queue = <<>> /\ operator_stack = <<>> /\ postfix = <<>>
    /\ epos = 1 /\ stack = <<>>
    /\ temp_num = <<>>
    /\ result = InvalidExpression
    /\ base = None /\ idx = 1

\* parse_num on the literal
RuleConvert ==
    /\ pc = "rule"
    /\ result' = parse_num(line)
    /\ pc' = "converted"
    /\ UNCHANGED <<args, overflow_checks, loop_out, out, tokVars, shuntVars, evalVars, temp_num,
                   batchVars>>

RuleSpec == RuleInit /\ [][RuleConvert]_vars

(***************************************************************************)
(* Properties of the interactive loop                                      *)
(***************************************************************************)
ThreePlusFourTimesTwo == <<"3", " ", "+", " ", "4", " ", "*", " ", "2">>
Hex(d) == Number(<<"0", "x", d>>)

\* C1: the line "3 + 4 * 2" is handed to eval_expr in the postfix order
\* 3 4 2 * + and evaluates to 11 (the multiplication before the addition).
C1_MultiplicationFirst ==
    (pc = "print" /\ line = ThreePlusFourTimesTwo) =>
        /\ postfix = <<Hex("3"), Hex("4"), Hex("2"), Star, Plus>>
        /\ result = Ok(I64(11))

\* C2: eval_expr always terminates: once it has started on a token sequence, it
\* comes to its end (a value or a failure returned, or the process stopped), however
\* the payloads of the Number tokens normalize.
C2_EvalTerminates == (pc = "eval") ~> (pc \in {"print", "aborted"})

\* C3: evaluation is never fatal to the process: no unwrap of a failed parse and no
\* arithmetic overflow aborts it.
C3_NeverAborts == pc # "aborted"

\* C7: after the flush of a pending run at an operator or parenthesis character the
\* pending run is empty, converted or not, so that "zz+1" tokenizes to Plus and the
\* Number for 1.
C7_FailedRunDiscarded ==
    /\ (pc = "tokenize" /\ pos > 1 /\ IsOpChar(input[pos - 1])) => curr = <<>>
    /\ (pc = "shunt" /\ line = <<"z", "z", "+", "1">>) => tokens = <<Plus, Hex("1")>>

\* the forms of a payload
IsLowerHex(c) == \E i \in 1..16 : DigitChars[i] = c
IsHexTagged(p) ==
    Len(p) > 2 /\ starts_with(p, <<"0", "x">>) /\ \A i \in 3..Len(p) : IsLowerHex(p[i])
IsBinTagged(p) ==
    Len(p) > 1 /\ ends_with(p, <<"b">>) /\ \A i \in 1..(Len(p) - 1) : is_ascii_digit(p[i])
IsDigits(p) == p # <<>> /\ \A i \in 1..Len(p) : is_ascii_digit(p[i])
IsSignedDigits(p) == IsDigits(p) \/ (p # <<>> /\ p[1] = "-" /\ IsDigits(Tail(p)))
IsFloatText(p) ==
    \/ p \in {<<"N", "a", "N">>, <<"i", "n", "f">>, <<"-", "i", "n", "f">>}
    \/ \E k \in 2..(Len(p) - 1) :
           p[k] = "." /\ IsSignedDigits(SubSeq(p, 1, k - 1))
                      /\ IsDigits(SubSeq(p, k + 1, Len(p)))

NumberPayloads == {tokens[i].num : i \in {j \in 1..Len(tokens) : tokens[j].kind = "Number"}}

\* C9 as stated: every Number token carries "0x" and hex digits, or digits and "b".
C9_TaggedPayloads == \A p \in NumberPayloads : IsHexTagged(p) \/ IsBinTagged(p)

\* C9: every Number token carries an output of the converter: "0x" and hex digits
\* (the f, o, b-suffix and default rules), binary digits and "b" (the b-prefix
\* rule), a run of digits with or without a leading "-" (the 0x, d, Bx and Ox
\* rules, and the integral floats of the Fx rule), or the text of a float with a
\* "." or of inf, -inf, NaN (the Fx rule); never the raw run.
C9_ConverterOutputs ==
    \A p \in NumberPayloads :
        IsHexTagged(p) \/ IsBinTagged(p) \/ IsSignedDigits(p) \/ IsFloatText(p)

\* the literal 0xff has become the token of the decimal 255
C9_DecimalPayloadSeen ==
    pc = "shunt" /\ line = <<"0", "x", "f", "f">> /\ tokens = <<Number(<<"2", "5", "5">>)>>

\* the value of a number of the pattern lines
RefNum(A) ==
    [ok |-> TRUE,
     v |-> CASE A = <<"0">> -> 0 [] A = <<"2">> -> 2 [] A = <<"3">> -> 3
             [] A = <<"4">> -> 4 [] A = <<"0", "x", "a">> -> 10]

\* integer division cut toward zero, for y # 0
RefQuotient(x, y) ==
    IF (x < 0) = (y < 0) THEN (IF x < 0 THEN (-x) \div (-y) ELSE x \div y)
    ELSE -((IF x < 0 THEN -x ELSE x) \div (IF y < 0 THEN -y ELSE y))

\* x op y on reference results: a division by zero fails, and a failure is passed on
RefApply(op, x, y) ==
    IF ~x.ok \/ ~y.ok \/ (op = "/" /\ y.v = 0) THEN [ok |-> FALSE, v |-> 0]
    ELSE [ok |-> TRUE,
          v |-> CASE op = "+" -> x.v + y.v
                  [] op = "-" -> x.v - y.v
                  [] op = "*" -> x.v * y.v
                  [] op = "/" -> RefQuotient(x.v, y.v)]

RefResult(r) == IF r.ok THEN Ok(I64(r.v)) ELSE DivisionByZero

ThreePlusFourGroupedTimesTwo ==
    <<"(", "3", " ", "+", " ", "4", ")", " ", "*", " ", "2">>

\* C10: a parenthesized sub-expression is evaluated as a unit: "(A op1 B) op2 C"
\* gives (A op1 B) op2 C and "A op1 (B op2 C)" gives A op1 (B op2 C), a division
\* by zero inside or outside the parentheses giving "Division by zero";
\* "(3 + 4) * 2" gives 14.
C10_GroupedAsUnit ==
    pc = "print" =>
        /\ line = ThreePlusFourGroupedTimesTwo => result = Ok(I64(14))
        /\ \A A \in NumLits, B \in NumLits, C \in NumLits, op1 \in OpChars, op2 \in OpChars :
               /\ line = LeftGrouped(A, op1, B, op2, C) =>
                      result = RefResult(RefApply(op2, RefApply(op1, RefNum(A), RefNum(B)),
                                                  RefNum(C)))
               /\ line = RightGrouped(A, op1, B, op2, C) =>
                      result = RefResult(RefApply(op1, RefNum(A),
                                                  RefApply(op2, RefNum(B), RefNum(C))))

\* "(3 + 4) * 2" has been evaluated to 14
C10_GroupedSeen ==
    pc = "print" /\ line = ThreePlusFourGroupedTimesTwo /\ result = Ok(I64(14))

FiveOverZero == <<"5", " ", "/", " ", "0">>

\* C11: whenever eval_expr takes a Slash with two or more operands on the stack
\* and the top one 0, it returns "Division by zero": the division is not done (the
\* two operands are popped and no quotient is pushed) and the process does not
\* abort; "5 / 0" gives that failure.
C11_DivisionByZeroFails ==
    /\ [][(/\ pc = "eval" /\ epos <= Len(postfix) /\ postfix[epos] = Slash
           /\ Len(stack) >= 2 /\ stack[Len(stack)] = I64(0))
          => (/\ pc' = "print" /\ result' = Err("Division by zero")
              /\ stack' = SubSeq(stack, 1, Len(stack) - 2))]_vars
    /\ []((pc = "print" /\ line = FiveOverZero) => result = Err("Division by zero"))

\* "5 / 0" has been evaluated to the failure at its third token, the Slash, with
\* 5 and 0 popped
C11_FiveOverZeroSeen ==
    /\ pc = "print" /\ line = FiveOverZero
    /\ epos = 4 /\ postfix[3] = Slash
    /\ stack = <<>> /\ result = Err("Division by zero")

\* C12: whenever eval_expr takes one of the four operators with fewer than two
\* operands on the stack it returns "Invalid expression", for Slash also when the
\* one operand is 0; at the end of the tokens an empty stack gives the same
\* failure, as for the line "+" and for the empty line.
C12_TooFewOperandsFail ==
    /\ [][(/\ pc = "eval"
           /\ \/ epos <= Len(postfix) /\ IsOperator(postfix[epos]) /\ Len(stack) < 2
              \/ epos > Len(postfix) /\ stack = <<>>)
          => (pc' = "print" /\ result' = Err("Invalid expression"))]_vars
    /\ []((pc = "print" /\ line \in {<<"+">>, <<>>})
              => result = Err("Invalid expression"))

\* "0/" has failed at its second token, the Slash, which found the single
\* operand 0 to pop
C12_LoneZeroDividedSeen ==
    /\ pc = "print" /\ line = <<"0", "/">>
    /\ epos = 3 /\ postfix[2] = Slash
    /\ stack = <<>> /\ result = Err("Invalid expression")

\* a Number token, an operator, a Number token, ..., a Number token
IsChain(ts) ==
    /\ Len(ts) % 2 = 1
    /\ \A i \in 1..Len(ts) :
           IF i % 2 = 1 THEN ts[i].kind = "Number" ELSE IsOperator(ts[i])

\* n0 n1 op1 n2 op2 ... nk opk for the chain n0 op1 n1 op2 n2 ... opk nk
ChainPostfix(ts) ==
    [i \in 1..Len(ts) |-> IF i = 1 THEN ts[1] ELSE IF i % 2 = 0 THEN ts[i + 1] ELSE ts[i - 1]]

\* the value of the payload of a number of the pattern lines
PayloadNum(p) ==
    [ok |-> TRUE,
     v |-> CASE p = <<"0", "x", "0">> -> 0 [] p = <<"0", "x", "2">> -> 2
             [] p = <<"0", "x", "3">> -> 3 [] p = <<"0", "x", "4">> -> 4
             [] p = <<"1", "0">> -> 10]

OpCharOf(t) ==
    CASE t.kind = "Plus" -> "+" [] t.kind = "Minus" -> "-"
      [] t.kind = "Star" -> "*" [] t.kind = "Slash" -> "/"

\* the left-to-right fold of the first k tokens of a chain, k odd
RECURSIVE ChainFold(_, _)
ChainFold(ts, k) ==
    IF k = 1 THEN PayloadNum(ts[1].num)
    ELSE RefApply(OpCharOf(ts[k - 1]), ChainFold(ts, k - 2), PayloadNum(ts[k].num))

\* C15: one flat precedence, associating to the left: the tokens n0 op1 n1 op2 n2
\* ... opk nk of a line without parentheses go to eval_expr as n0 n1 op1 n2 op2
\* ... nk opk and the result is the fold (((n0 op1 n1) op2 n2) ... opk nk), the
\* operand pushed earlier on the left of - and /.
C15_LeftToRightFold ==
    (pc = "print" /\ IsChain(tokens)) =>
        /\ postfix = ChainPostfix(tokens)
        /\ result = RefResult(ChainFold(tokens, Len(tokens)))

\* "4/2/2*3-0xa" has been evaluated to ((((4 / 2) / 2) * 3) - 10) = -7
C15_LongChainSeen ==
    /\ pc = "print"
    /\ line = <<"4", "/", "2", "/", "2", "*", "3", "-", "0", "x", "a">>
    /\ Len(postfix) = 9 /\ result = Ok(I64(-7))

\* ts without its element i
Without(ts, i) == SubSeq(ts, 1, i - 1) \o SubSeq(ts, i + 1, Len(ts))

\* the token i of ts is an RParen that finds no LParen on the operator stack
UnmatchedRParen(ts, i) ==
    /\ ts[i] = RParen
    /\ \A j \in 1..Len(ShuntRun(ts, i - 1).operator_stack) :
           ShuntRun(ts, i - 1).operator_stack[j] # LParen

\* C16: an RParen that finds no LParen on the operator stack is ignored: the
\* postfix is the one of the same tokens without it, and the tokens of "1+)2" give
\* the postfix of "1+2", which is 1 2 +.
C16_UnmatchedRParenIgnored ==
    (pc = "eval" /\ epos = 1) =>
        /\ \A i \in 1..Len(tokens) :
               UnmatchedRParen(tokens, i) => postfix = infix_to_postfix(Without(tokens, i))
        /\ line = <<"1", "+", ")", "2">> => postfix = <<Hex("1"), Hex("2"), Plus>>

\* how many "(" of the first k tokens of ts no later ")" among them closes
RECURSIVE OpenParens(_, _)
OpenParens(ts, k) ==
    IF k = 0 THEN 0
    ELSE The({IF ts[k] = LParen THEN d + 1
              ELSE IF ts[k] = RParen THEN Max(0, d - 1)
              ELSE d :
              d \in {OpenParens(ts, k - 1)}})

\* C17: the output of infix_to_postfix holds no RParen, and one LParen for each
\* "(" of the input that no later ")" closes; so eval_expr returns no value for
\* tokens with such a "(", and returns "Unexpected token" when the last token it
\* took is a parenthesis.
C17_OpenParensReachEval ==
    pc \in {"eval", "norm_test", "norm_body", "print", "aborted"} =>
        /\ \A i \in 1..Len(postfix) : postfix[i] # RParen
        /\ Cardinality({i \in 1..Len(postfix) : postfix[i] = LParen})
               = OpenParens(tokens, Len(tokens))
        /\ pc = "print" =>
               /\ OpenParens(tokens, Len(tokens)) > 0 => ~result.ok
               /\ (epos > 1 /\ postfix[epos - 1] = LParen)
                      => result = Err("Unexpected token")

\* "(1" has reached eval_expr as 1 ( and failed at the parenthesis
C17_OpenParenSeen ==
    /\ pc = "print" /\ line = <<"(", "1">>
    /\ postfix = <<Hex("1"), LParen>> /\ epos = 3 /\ result = Err("Unexpected token")

OneThenTwoGrouped == <<"(", "1", ")", "(", "2", ")">>

\* C18: when every token has been taken without a failure and more than one value
\* is left on the stack, eval_expr returns the top one, the value pushed last;
\* "(1)(2)" gives 2.
C18_SurplusIgnored ==
    /\ [][(pc = "eval" /\ epos > Len(postfix) /\ Len(stack) > 1)
          => (pc' = "print" /\ result' = Ok(stack[Len(stack)]))]_vars
    /\ []((pc = "print" /\ line = OneThenTwoGrouped) => result = Ok(I64(2)))

\* "(1)(2)" has been evaluated to 2, popped from above the 1 that stays behind
C18_SurplusSeen ==
    /\ pc = "print" /\ line = OneThenTwoGrouped
    /\ epos > Len(postfix) /\ stack = <<I64(1)>> /\ result = Ok(I64(2))

\* s without its whitespace characters
RECURSIVE StripWhitespace(_)
StripWhitespace(s) ==
    IF s = <<>> THEN <<>>
    ELSE IF IsWhitespace(Head(s)) THEN StripWhitespace(Tail(s))
    ELSE <<Head(s)>> \o StripWhitespace(Tail(s))

\* C19: whitespace is skipped and ends no pending run: the tokens of a line are
\* the tokens of the line without its whitespace characters, spaces and tabs,
\* between the digits of a literal too.
C19_WhitespaceSkipped ==
    (pc = "shunt" /\ tpos = 1) => tokens = parse_expr(StripWhitespace(line))

\* the Number tokens of ts, in their order
RECURSIVE NumbersOf(_)
NumbersOf(ts) ==
    IF ts = <<>> THEN <<>>
    ELSE IF Head(ts).kind = "Number" THEN <<Head(ts)>> \o NumbersOf(Tail(ts))
    ELSE NumbersOf(Tail(ts))

\* how many tokens of ts are of the kind k
CountKind(ts, k) == Cardinality({i \in 1..Len(ts) : ts[i].kind = k})

\* C20: infix_to_postfix loses and doubles no operand and no operator: the Number
\* tokens of the output are those of the input in their order, each of Plus,
\* Minus, Star, Slash is in the output as often as in the input, and the operator
\* stack is empty at the return.
C20_TokensKept ==
    (pc = "eval" /\ epos = 1) =>
        /\ NumbersOf(postfix) = NumbersOf(tokens)
        /\ \A k \in {"Plus", "Minus", "Star", "Slash"} :
               CountKind(postfix, k) = CountKind(tokens, k)
        /\ operator_stack = <<>>

\* "(3 + 4) * 2" has left infix_to_postfix as 3 4 + 2 *
C20_GroupedPostfixSeen ==
    /\ pc = "eval" /\ epos = 1 /\ line = ThreePlusFourGroupedTimesTwo
    /\ postfix = <<Hex("3"), Hex("4"), Plus, Hex("2"), Star>>
    /\ operator_stack = <<>>

(***************************************************************************)
(* Properties of batch mode                                                *)
(***************************************************************************)
\* C4: with no forced base, every argument the converter accepts prints one line,
\* its converted string: at the end the output is the converted strings of the
\* arguments, in order (["255"] prints 0xff).
C4_DefaultPrintsConverted ==
    (pc = "exit" /\ ~base.some /\ \A i \in 2..Len(args) : parse_num(args[i]).ok) =>
        out = [i \in 1..(Len(args) - 1) |-> parse_num(args[i + 1]).v]

\* C5: every argument is finished in the end and the next one taken: the loop over
\* the arguments comes to its end.
C5_EveryArgumentFinished == <>(pc = "exit")

\* C6: the argument that names the base, first or second, is the one left out, and
\* the other one, a decimal number, is printed in that base (["=16", "10"] and
\* ["10", "=16"] both print 0xa).
C6_BaseArgumentAnywhere ==
    pc = "exit" /\ Len(args) = 3 =>
        \A i \in 2..3 :
            IsBaseArg(args[i]) /\ IsDigits(args[5 - i]) =>
                out = <<FormatBase(SplitPart1(args[i]),
                                   i64_from_str_radix(args[5 - i], 10).v)>>

(***************************************************************************)
(* Properties of parse_num                                                 *)
(***************************************************************************)
\* C8: the converter takes the decimal string of every i64, negative ones too, to
\* a 0x-tagged string, and takes that string back to the decimal string.
C8_DecimalHexRoundTrip ==
    /\ pc = "forth" => result.ok /\ starts_with(result.v, <<"0", "x">>)
    /\ pc = "back" => result = Ok(line)

\* C13: the rules are tried in the order 0x, b-prefix, Fx, Bx, Ox, d, f, o,
\* b-suffix, bare decimal, and the first one whose prefix or suffix matches gives
\* the result alone, a ParseIntError where its digits are malformed; the literal
\* "b10b" is the b-prefix rule's, which fails on it.
C13_FirstMatchDecides ==
    pc = "converted" =>
        /\ result = RuleBranch(FirstRule(line), line)
        /\ line = <<"b", "1", "0", "b">> => result = ParseIntError

\* "0xd" has gone to the 0x rule, which gave 13, and not to the d rule
C13_HexBeforeSuffixSeen ==
    pc = "converted" /\ line = <<"0", "x", "d">> /\ result = Ok(<<"1", "3">>)

\* "0x" and one to sixteen hex digits
IsHexLiteral(l) ==
    /\ starts_with(l, <<"0", "x">>) /\ Len(l) \in 3..18
    /\ AllDigits(DropFirst(l, 2), 16)

\* C14: the converter takes every hex literal 0x<h> of up to 16 hex digits, those
\* whose value needs the top bit of 64 too, to the decimal string of the value of
\* <h>.
C14_HexValueInDecimal ==
    (pc = "converted" /\ IsHexLiteral(line)) =>
        result = Ok(NToStr(DigitsValue(DropFirst(line, 2), 16), 10))

====
